---- MODULE Spec2Model ----
(***************************************************************************)
(* State-machine model of the supernova simulation engine                  *)
(* (src/supernova_sim/simulation.py, src/supernova_sim/numba_core.py) and  *)
(* of the headless driver loop (src/main.py).                              *)
(*                                                                         *)
(* One Python process holds up to two SupernovaSimulation objects.  The    *)
(* random generators are process-wide, exactly as in the source:           *)
(*   np_random  numpy's global RandomState  (np.random.seed / poisson)     *)
(*   py_random  the interpreter's `random` module state (random.seed)      *)
(*   nb_random  the generator that `random.uniform` draws from inside the  *)
(*              @njit functions.  Numba keeps its own generator state,     *)
(*              initialised from OS entropy at start-up; random.seed()     *)
(*              called from interpreted code does not touch it.            *)
(* A generator is abstracted as [key, pos]: the value that seeded it and   *)
(* the number of draws consumed; its output is a fixed function of both.   *)
(*                                                                         *)
(* Coordinates are integers: the geometries are chosen so that grid         *)
(* spacing, sampled positions and heights are whole numbers below 2^24      *)
(* (exactly representable as float32 and float64).  The float64 arithmetic  *)
(* of the @njit code is then exact.  The float32 arithmetic of the          *)
(* constructor's domain mask rounds to 24 significant bits; that rounding   *)
(* is modelled by F32.                                                      *)
(***************************************************************************)
EXTENDS Integers, Sequences, FiniteSets, TLC

\* ---------------------------------------------------------------- bounds
MaxIntervals == 2
MaxEvents == 2
MaxNewCivs == 2
MaxExtraCalls == 1
NumSeeds == 1
NumEntropy == 2
MaxThreshold == 2
NumGridEntropy == 5
MaxGridIntervals == 4

Engines == {1, 2}

\* `None` of the source (seed=None, extinction_interval=None).
None == -1

\* ------------------------------------------------------- random generators
Seeded(s) == [key |-> s, pos |-> 0]

\* Output of a generator: a deterministic function of seed and draw index.
Mix(k, p) ==
  ((k + 1) * 7919 + (p + 1) * 104729 + (k + 3) * (p + 1) * (p + 2) * 31) % 1009

Advance(st, n) == [st EXCEPT !.pos = @ + n]

\* np.random.poisson(lam): one draw from the numpy stream, a count >= 0.
Poisson(st, cap) == Mix(st.key, st.pos) % (cap + 1)

\* random.uniform(a, b) inside @njit: a + (b - a) * random(), random() in
\* [0, 1).  The n-th of `choices` equally likely outcomes is selected.
UniformIndex(st, off, choices) == Mix(st.key, st.pos + off) % choices

\* ------------------------------------------------------------- geometry
Geometries ==
  { [R |-> 4, h |-> 4, bubble_r |-> 2, ngrid_xy |-> 3, ngrid_z |-> 2] }

\* Further valid configurations, run on a single engine:
\*   a finer grid whose bubble spans more than one cell (dx = 2, rx = 2);
\*   ngrid_xy = 2, whose four columns are the corners (+-R, +-R);
\*   a grid with cells exactly on the rim of the disk, at
\*   (3, 4, 5) * 3863 = (11589, 15452, 19315).
FineGeometry ==
  [R |-> 4, h |-> 4, bubble_r |-> 3, ngrid_xy |-> 5, ngrid_z |-> 2]

CornerGeometry ==
  [R |-> 4, h |-> 4, bubble_r |-> 2, ngrid_xy |-> 2, ngrid_z |-> 2]

RimGeometry ==
  [R |-> 19315, h |-> 8000, bubble_r |-> 12000, ngrid_xy |-> 11, ngrid_z |-> 2]

GridGeometries == Geometries \cup {FineGeometry, CornerGeometry, RimGeometry}

\* Configurations with a grid size below 2 or a radius or thickness <= 0.
ConfigGeometries ==
  { [R |-> 4, h |-> 4, bubble_r |-> 2, ngrid_xy |-> 1, ngrid_z |-> 2],
    [R |-> 4, h |-> 4, bubble_r |-> 2, ngrid_xy |-> 3, ngrid_z |-> 1],
    [R |-> 0, h |-> 4, bubble_r |-> 2, ngrid_xy |-> 3, ngrid_z |-> 2],
    [R |-> 4, h |-> 0, bubble_r |-> 2, ngrid_xy |-> 3, ngrid_z |-> 2],
    [R |-> -4, h |-> 4, bubble_r |-> 2, ngrid_xy |-> 3, ngrid_z |-> 2],
    [R |-> 4, h |-> -4, bubble_r |-> 2, ngrid_xy |-> 3, ngrid_z |-> 2] }

\* Variant that rounds the quotient down.
CeilDiv_Floor(a, b) == IF b > 0 THEN a \div b ELSE (-a) \div (-b)

\* int(math.ceil(a / b)), b # 0.
CeilDiv(a, b) == IF b > 0 THEN -((-a) \div b) ELSE -(a \div (-b))

\* np.linspace(-R, R, ngrid_xy): spacing x[1] - x[0].
Dx(g) == (2 * g.R) \div (g.ngrid_xy - 1)
Dz(g) == g.h \div (g.ngrid_z - 1)

Cells(g) == (0 .. g.ngrid_xy - 1) \X (0 .. g.ngrid_xy - 1) \X (0 .. g.ngrid_z - 1)

XCoord(g, i) == -g.R + i * Dx(g)

\* int(round(n / d)), n / d >= 0: round half to even.
RoundDiv(n, d) ==
  LET a == IF d > 0 THEN n ELSE -n
      b == IF d > 0 THEN d ELSE -d
      q == a \div b
      r == a % b
  IN  IF 2 * r < b THEN q
      ELSE IF 2 * r > b THEN q + 1
      ELSE IF q % 2 = 0 THEN q ELSE q + 1

\* Spacing of the float32 values at and above n >= 0: 1 below 2^24, doubling
\* with every further binary digit.
RECURSIVE Ulp(_)
Ulp(n) == IF n < 16777216 THEN 1 ELSE 2 * Ulp(n \div 2)

\* Variant without rounding.
F32_Exact(n) == n

\* The float32 nearest to the integer n >= 0 (ties to even).
F32(n) == RoundDiv(n, Ulp(n)) * Ulp(n)

\* domain2d = (X2**2 + Y2**2 <= R**2) on the float32 mesh, repeated along
\* z: squares, sum and the compared R**2 are float32 values.
DomainMask(g) ==
  { c \in Cells(g) :
      F32(F32(XCoord(g, c[1]) * XCoord(g, c[1]))
          + F32(XCoord(g, c[2]) * XCoord(g, c[2])))
        <= F32(g.R * g.R) }

\* cos/sin of theta for the four directions theta = 0, pi/2, pi, 3pi/2.
CosSin == << <<1, 0>>, <<0, 1>>, <<-1, 0>>, <<0, -1>> >>
\* sqrt(u) in quarters for u = 0, 1/4, 9/16; where R is not a multiple of 4
\* the radius is the whole number just below (a nearby value of u).
SqrtUQuarters == << 0, 2, 3 >>

\* The disk-by-slab sampler shared by run_supernova and
\* generate_civilization: three uniform draws from the Numba generator.
SamplePoint(g, st) ==
  LET t == UniformIndex(st, 0, 4) + 1
      u == UniformIndex(st, 1, 3) + 1
      v == UniformIndex(st, 2, 4)
      r == (SqrtUQuarters[u] * g.R) \div 4
  IN  [x |-> r * CosSin[t][1],
       y |-> r * CosSin[t][2],
       z |-> -(g.h \div 2) + (g.h * v) \div 4]

\* ------------------------------------------------------------------ state
VARIABLES
  np_random,   \* numpy global generator
  py_random,   \* Python `random` module generator (interpreter side)
  nb_random,   \* generator used by random.uniform inside @njit code
  sim,         \* the SupernovaSimulation objects, by creation order
  returns,     \* per object, the values its step() calls have returned
  pc,          \* "idle", or "events" while a step() call is in its loop
  active,      \* the object whose step() is executing (0 when idle)
  events_left, \* remaining iterations of `for _ in range(num_events)`
  solo,        \* objects run from construction to completion on their own
  event,       \* locals of the current loop iteration: x0, y0, z0, the
               \* value run_supernova returned, the cells it accessed
  drawn,       \* per object, the num_events drawn by its step() calls
  raised       \* configurations whose constructor call raised, with the error

vars ==
  << np_random, py_random, nb_random, sim, returns, pc, active,
     events_left, solo, event, drawn, raised >>

NoEvent == [kind |-> "none"]

TerminalSignal == [kind |-> "False"]

\* Variant of the guard with a strict comparison.
Completed_Strict(s) == s.current_interval > s.num_intervals

\* `if self.current_interval >= self.num_intervals`
Completed(s) == s.current_interval >= s.num_intervals

\* --------------------------------------------------------------- __init__
NewSimulation(n, civs, seed, g, mt) ==
  [num_intervals |-> n,
   simulate_civilizations |-> civs,
   seed |-> seed,
   geom |-> g,
   max_threshold |-> mt,
   current_interval |-> 0,
   dx |-> Dx(g), dy |-> Dx(g), dz |-> Dz(g),
   domain_mask |-> DomainMask(g),
   total_domain_cells |-> Cardinality(DomainMask(g)),
   hit_count |-> [c \in Cells(g) |-> 0],
   supernovae |-> 0,
   coverage_history |-> [th \in 1 .. mt |-> << >>],
   civilizations |-> << >>,
   next_civ_id |-> 0,
   civ_history |-> << >>,
   rx |-> CeilDiv(g.bubble_r, Dx(g)),
   ry |-> CeilDiv(g.bubble_r, Dx(g)),
   rz |-> CeilDiv(g.bubble_r, Dz(g)),
   intervals |-> << >>]

\* The exception __init__ raises for geometry g, "none" if it returns.
\* x[1] and z[1] need two grid points; bubble_r / dx and bubble_r / dz need
\* a non-zero spacing.
ConstructionError(g) ==
  IF g.ngrid_xy < 2 THEN "IndexError"
  ELSE IF g.ngrid_z < 2 THEN "IndexError"
  ELSE IF Dx(g) = 0 THEN "ZeroDivisionError"
  ELSE IF Dz(g) = 0 THEN "ZeroDivisionError"
  ELSE "none"

\* SupernovaSimulation(...) with num_intervals up to N and the geometry
\* taken from G, returning.
ConstructWith(e, N, G) ==
  /\ pc = "idle"
  /\ e \notin DOMAIN sim
  /\ e = Cardinality(DOMAIN sim) + 1
  /\ \E n \in 1 .. N, civs \in BOOLEAN,
        seed \in (0 .. NumSeeds - 1) \cup {None}, g \in G :
       /\ ConstructionError(g) = "none"
       /\ IF seed # None
            THEN /\ py_random' = Seeded(seed)
                 /\ np_random' = Seeded(seed)
            ELSE UNCHANGED << py_random, np_random >>
       /\ sim' = [f \in DOMAIN sim \cup {e} |->
                    IF f = e THEN NewSimulation(n, civs, seed, g, MaxThreshold)
                    ELSE sim[f]]
  /\ returns' = [f \in DOMAIN sim \cup {e} |->
                   IF f = e THEN << >> ELSE returns[f]]
  /\ drawn' = [f \in DOMAIN sim \cup {e} |->
                 IF f = e THEN << >> ELSE drawn[f]]
  /\ solo' = {f \in solo : Completed(sim[f])} \cup {e}
  /\ UNCHANGED << nb_random, pc, active, events_left, event, raised >>

Construct(e) == ConstructWith(e, MaxIntervals, Geometries)

\* SupernovaSimulation(...) raising: the seeding of lines 24-26 has taken
\* place, no object results.
ConstructRaises(e, G) ==
  /\ pc = "idle"
  /\ e \notin DOMAIN sim
  /\ e = Cardinality(DOMAIN sim) + 1
  /\ \E seed \in (0 .. NumSeeds - 1) \cup {None}, g \in G :
       /\ ConstructionError(g) # "none"
       /\ [geom |-> g, error |-> ConstructionError(g)] \notin raised
       /\ raised' = raised \cup {[geom |-> g, error |-> ConstructionError(g)]}
       /\ IF seed # None
            THEN /\ py_random' = Seeded(seed)
                 /\ np_random' = Seeded(seed)
            ELSE UNCHANGED << py_random, np_random >>
  /\ UNCHANGED << nb_random, sim, returns, pc, active, events_left, solo,
                  event, drawn >>

\* ------------------------------------------------------ update_hit_count
\* The candidate indices of the triple loop: range(-rx, rx + 1) around the
\* centre index on each axis.
Window(s, i_center, j_center, k_center) ==
  ((i_center - s.rx) .. (i_center + s.rx))
    \X ((j_center - s.ry) .. (j_center + s.ry))
    \X ((k_center - s.rz) .. (k_center + s.rz))

\* Variant whose upper comparisons are strict.
InBounds_OffByOne(g, c) ==
  /\ ~ (c[1] < 0 \/ c[1] > g.ngrid_xy)
  /\ ~ (c[2] < 0 \/ c[2] > g.ngrid_xy)
  /\ ~ (c[3] < 0 \/ c[3] > g.ngrid_z)

\* The three `continue` tests on i, j and k.
InBounds(g, c) ==
  /\ ~ (c[1] < 0 \/ c[1] >= g.ngrid_xy)
  /\ ~ (c[2] < 0 \/ c[2] >= g.ngrid_xy)
  /\ ~ (c[3] < 0 \/ c[3] >= g.ngrid_z)

\* The indices at which the loop reads and writes hit_count: candidates
\* that pass the bounds tests, the disk test and the distance test.
Stamped(s, x0, y0, z0, i_center, j_center, k_center) ==
  LET g == s.geom
      r2 == g.bubble_r * g.bubble_r
  IN  { c \in Window(s, i_center, j_center, k_center) :
          /\ InBounds(g, c)
          /\ LET x_cell == -g.R + c[1] * s.dx
                 y_cell == -g.R + c[2] * s.dy
                 z_cell == -(g.h \div 2) + c[3] * s.dz
                 dx_val == x_cell - x0
                 dy_val == y_cell - y0
                 dz_val == z_cell - z0
             IN  /\ ~ (x_cell * x_cell + y_cell * y_cell > g.R * g.R)
                 /\ dx_val * dx_val + dy_val * dy_val + dz_val * dz_val
                      <= r2 }

\* Variant that writes `-= 1` where the source has `+= 1`.
update_hit_count_Decrement(s, x0, y0, z0, i_center, j_center, k_center) ==
  LET hit == Stamped(s, x0, y0, z0, i_center, j_center, k_center)
  IN  [new_hit |-> Cardinality({c \in Cells(s.geom) :
                                 c \in hit /\ s.hit_count[c] = 0}),
       accessed |-> hit,
       hit_count |-> [c \in Cells(s.geom) |->
                        IF c \in hit THEN s.hit_count[c] - 1
                        ELSE s.hit_count[c]]]

\* Variant that increments a stamped cell twice for one event.
update_hit_count_Twice(s, x0, y0, z0, i_center, j_center, k_center) ==
  LET hit == Stamped(s, x0, y0, z0, i_center, j_center, k_center)
  IN  [new_hit |-> Cardinality({c \in Cells(s.geom) :
                                 c \in hit /\ s.hit_count[c] = 0}),
       accessed |-> hit,
       hit_count |-> [c \in Cells(s.geom) |->
                        IF c \in hit THEN s.hit_count[c] + 2
                        ELSE s.hit_count[c]]]

\* Variant that counts every incremented cell as a new hit.
update_hit_count_CountAll(s, x0, y0, z0, i_center, j_center, k_center) ==
  LET hit == Stamped(s, x0, y0, z0, i_center, j_center, k_center)
  IN  [new_hit |-> Cardinality({c \in Cells(s.geom) : c \in hit}),
       accessed |-> hit,
       hit_count |-> [c \in Cells(s.geom) |->
                        IF c \in hit THEN s.hit_count[c] + 1
                        ELSE s.hit_count[c]]]

update_hit_count(s, x0, y0, z0, i_center, j_center, k_center) ==
  LET hit == Stamped(s, x0, y0, z0, i_center, j_center, k_center)
  IN  [new_hit |-> Cardinality({c \in Cells(s.geom) :
                                 c \in hit /\ s.hit_count[c] = 0}),
       accessed |-> hit,
       hit_count |-> [c \in Cells(s.geom) |->
                        IF c \in hit THEN s.hit_count[c] + 1
                        ELSE s.hit_count[c]]]

\* --------------------------------------------------------- run_supernova
\* `supernovae += 1` inside run_supernova acts on a by-value integer and is
\* not visible to the caller.
run_supernova(s, st) ==
  LET g == s.geom
      p == SamplePoint(g, st)
      i_center == RoundDiv(p.x + g.R, s.dx)
      j_center == RoundDiv(p.y + g.R, s.dy)
      k_center == RoundDiv(p.z + (g.h \div 2), s.dz)
      u == update_hit_count(s, p.x, p.y, p.z, i_center, j_center, k_center)
  IN  [x0 |-> p.x, y0 |-> p.y, z0 |-> p.z,
       new_hits |-> u.new_hit, hit_count |-> u.hit_count,
       accessed |-> u.accessed]

\* ------------------------------------------------- generate_civilization
\* Variant that hands back id 0 whatever next_civ_id is.
generate_civilization_ConstantId(next_civ_id, g, st) ==
  LET p == SamplePoint(g, st)
  IN  [civ_id |-> 0, civ_x |-> p.x, civ_y |-> p.y, civ_z |-> p.z]

generate_civilization(next_civ_id, g, st) ==
  LET p == SamplePoint(g, st)
  IN  [civ_id |-> next_civ_id, civ_x |-> p.x, civ_y |-> p.y, civ_z |-> p.z]

\* ------------------------------------------------------------------- step
\* Variant that divides whatever the total.
Frac_Unguarded(covered, total) == [num |-> covered, den |-> total]

\* covered / self.total_domain_cells if self.total_domain_cells else 0.0
Frac(covered, total) ==
  IF total # 0 THEN [num |-> covered, den |-> total]
  ELSE [num |-> 0, den |-> 1]

\* Variants of the coverage count with the comparison changed.
Covered_AtMost(hc, threshold) ==
  Cardinality({c \in DOMAIN hc : hc[c] <= threshold})

Covered_Exactly(hc, threshold) ==
  Cardinality({c \in DOMAIN hc : hc[c] = threshold})

\* int(np.count_nonzero(self.hit_count >= threshold))
Covered(hc, threshold) ==
  Cardinality({c \in DOMAIN hc : hc[c] >= threshold})

\* Variant of the extinction loop with a strict distance comparison.
Extinguish_Strict(civs, g, x0, y0, z0, interval) ==
  LET br2 == g.bubble_r * g.bubble_r
  IN  [n \in 1 .. Len(civs) |->
         LET civ == civs[n]
             dx_civ == civ.x - x0
             dy_civ == civ.y - y0
             dz_civ == civ.z - z0
         IN  IF civ.extinct THEN civ
             ELSE IF dx_civ * dx_civ + dy_civ * dy_civ + dz_civ * dz_civ < br2
               THEN [civ EXCEPT !.extinct = TRUE,
                                !.extinction_interval = interval]
             ELSE civ]

\* Variant that stamps the index of the previous step.
Extinguish_PreviousInterval(civs, g, x0, y0, z0, interval) ==
  LET br2 == g.bubble_r * g.bubble_r
  IN  [n \in 1 .. Len(civs) |->
         LET civ == civs[n]
             dx_civ == civ.x - x0
             dy_civ == civ.y - y0
             dz_civ == civ.z - z0
         IN  IF civ.extinct THEN civ
             ELSE IF dx_civ * dx_civ + dy_civ * dy_civ + dz_civ * dz_civ <= br2
               THEN [civ EXCEPT !.extinct = TRUE,
                                !.extinction_interval = interval - 1]
             ELSE civ]

\* Variant of the extinction loop that sets the flag and not the interval.
Extinguish_FlagOnly(civs, g, x0, y0, z0, interval) ==
  LET br2 == g.bubble_r * g.bubble_r
  IN  [n \in 1 .. Len(civs) |->
         LET civ == civs[n]
             dx_civ == civ.x - x0
             dy_civ == civ.y - y0
             dz_civ == civ.z - z0
         IN  IF civ.extinct THEN civ
             ELSE IF dx_civ * dx_civ + dy_civ * dy_civ + dz_civ * dz_civ <= br2
               THEN [civ EXCEPT !.extinct = TRUE]
             ELSE civ]

\* The extinction loop run for one event at (x0, y0, z0).
Extinguish(civs, g, x0, y0, z0, interval) ==
  LET br2 == g.bubble_r * g.bubble_r
  IN  [n \in 1 .. Len(civs) |->
         LET civ == civs[n]
             dx_civ == civ.x - x0
             dy_civ == civ.y - y0
             dz_civ == civ.z - z0
         IN  IF civ.extinct THEN civ
             ELSE IF dx_civ * dx_civ + dy_civ * dy_civ + dz_civ * dz_civ <= br2
               THEN [civ EXCEPT !.extinct = TRUE,
                                !.extinction_interval = interval]
             ELSE civ]

\* Variant that stamps the record with the interval after the increment.
NewCivilization_NextInterval(c, interval) ==
  [id |-> c.civ_id, x |-> c.civ_x, y |-> c.civ_y, z |-> c.civ_z,
   birth_interval |-> interval + 1, extinct |-> FALSE,
   extinction_interval |-> None]

\* The record appended to self.civilizations.
NewCivilization(c, interval) ==
  [id |-> c.civ_id, x |-> c.civ_x, y |-> c.civ_y, z |-> c.civ_z,
   birth_interval |-> interval, extinct |-> FALSE,
   extinction_interval |-> None]

\* `for _ in range(num_new_civs)`: generate, append, next_civ_id += 1.
\* The k-th iteration draws from the generator advanced by 3 * (k - 1) and
\* assigns the id next_civ_id + (k - 1).
SpawnLoop(s, st, n, interval) ==
  [civilizations |->
     s.civilizations \o
       [k \in 1 .. n |->
          NewCivilization(
            generate_civilization(s.next_civ_id + (k - 1), s.geom,
                                  Advance(st, 3 * (k - 1))),
            interval)],
   next_civ_id |-> s.next_civ_id + n,
   st |-> Advance(st, 3 * n)]

\* Variant that overwrites the latest entry once there is one.
RecordCoverage_Overwrite(history, coverage) ==
  [th \in DOMAIN history |->
     IF history[th] = << >> THEN << coverage[th] >>
     ELSE [history[th] EXCEPT ![Len(history[th])] = coverage[th]]]

\* self.coverage_history[threshold].append(frac), for every threshold.
RecordCoverage(history, coverage) ==
  [th \in DOMAIN history |-> Append(history[th], coverage[th])]

\* Variant that counts every record, extinct or not.
LivingCount_All(civs) == Len(civs)

\* sum(1 for civ in self.civilizations if not civ["extinct"])
LivingCount(civs) == Cardinality({n \in 1 .. Len(civs) : ~ civs[n].extinct})

\* Variant that hands back the last result record again instead of False.
StepTerminal_Stale(e) ==
  /\ pc = "idle"
  /\ e \in DOMAIN sim
  /\ Completed(sim[e])
  /\ Len(returns[e]) < sim[e].num_intervals + MaxExtraCalls
  /\ returns' = [returns EXCEPT ![e] = Append(@, @[Len(@)])]
  /\ UNCHANGED << np_random, py_random, nb_random, sim, pc, active,
                  events_left, solo, event, drawn, raised >>

\* step() on a finished engine: `return False`, nothing else.
StepTerminal(e) ==
  /\ pc = "idle"
  /\ e \in DOMAIN sim
  /\ Completed(sim[e])
  /\ Len(returns[e]) < sim[e].num_intervals + MaxExtraCalls
  /\ returns' = [returns EXCEPT ![e] = Append(@, TerminalSignal)]
  /\ UNCHANGED << np_random, py_random, nb_random, sim, pc, active,
                  events_left, solo, event, drawn, raised >>

\* step() entry on a running engine: the draw of num_events.
StepBegin(e) ==
  /\ pc = "idle"
  /\ e \in DOMAIN sim
  /\ ~ Completed(sim[e])
  /\ events_left' = Poisson(np_random, MaxEvents)
  /\ drawn' = [drawn EXCEPT ![e] = Append(@, Poisson(np_random, MaxEvents))]
  /\ np_random' = Advance(np_random, 1)
  /\ pc' = "events"
  /\ active' = e
  /\ solo' = {f \in solo : f = e \/ Completed(sim[f])}
  /\ UNCHANGED << py_random, nb_random, sim, returns, event, raised >>

\* Variant that counts an event twice.
CountEvent_Twice(supernovae) == supernovae + 2

\* self.supernovae += 1
CountEvent(supernovae) == supernovae + 1

\* First half of one iteration of the event loop: run_supernova and the
\* counter.  (The call's value is bound once, as a singleton choice.)
StepEvent ==
  /\ pc = "events"
  /\ events_left > 0
  /\ \E s \in {sim[active]} : \E ev \in {run_supernova(s, nb_random)} :
         /\ sim' = [sim EXCEPT ![active] =
                      [s EXCEPT !.hit_count = ev.hit_count,
                                !.supernovae = CountEvent(@)]]
         /\ event' = [kind |-> "event", x0 |-> ev.x0, y0 |-> ev.y0,
                      z0 |-> ev.z0, new_hits |-> ev.new_hits,
                      accessed |-> ev.accessed]
  /\ nb_random' = Advance(nb_random, 3)
  /\ pc' = "extinction"
  /\ UNCHANGED << np_random, py_random, returns, active, events_left, solo,
                  drawn, raised >>

\* Second half of the iteration: the extinction check of the event against
\* the civilization list, when tracking is enabled.
StepExtinction ==
  /\ pc = "extinction"
  /\ LET s == sim[active]
     IN  sim' = [sim EXCEPT ![active] =
                   [s EXCEPT
                      !.civilizations =
                         IF s.simulate_civilizations
                           THEN Extinguish(@, s.geom, event.x0, event.y0,
                                           event.z0, s.current_interval)
                           ELSE @]]
  /\ event' = NoEvent
  /\ events_left' = events_left - 1
  /\ pc' = "events"
  /\ UNCHANGED << np_random, py_random, nb_random, returns, active, solo,
                  drawn, raised >>

\* The rest of step() after the event loop: emergence, coverage, the clock
\* and the returned record.  (Each local is bound once, as a singleton
\* choice.)
StepFinish ==
  /\ pc = "events"
  /\ events_left = 0
  /\ \E s \in {sim[active]} :
     \E sp \in {IF s.simulate_civilizations
                  THEN SpawnLoop(s, nb_random, Poisson(np_random, MaxNewCivs),
                                 s.current_interval)
                  ELSE [civilizations |-> s.civilizations,
                        next_civ_id |-> s.next_civ_id, st |-> nb_random]} :
     \E civ_history \in {IF s.simulate_civilizations
                           THEN Append(s.civ_history,
                                       LivingCount(sp.civilizations))
                           ELSE s.civ_history} :
     \E coverage \in {[th \in 1 .. s.max_threshold |->
                         Frac(Covered(s.hit_count, th),
                              s.total_domain_cells)]} :
     \E result \in {[kind |-> "result",
                      interval |-> s.current_interval + 1,
                      coverage |-> coverage,
                      civ_count |-> IF s.simulate_civilizations
                                       /\ Len(civ_history) > 0
                                      THEN civ_history[Len(civ_history)]
                                      ELSE 0,
                      supernovae |-> s.supernovae]} :
         /\ sim' = [sim EXCEPT ![active] =
                      [s EXCEPT
                         !.civilizations = sp.civilizations,
                         !.next_civ_id = sp.next_civ_id,
                         !.civ_history = civ_history,
                         !.coverage_history = RecordCoverage(@, coverage),
                         !.current_interval = @ + 1,
                         !.intervals = Append(@, s.current_interval + 1)]]
         /\ nb_random' = sp.st
         /\ np_random' = IF s.simulate_civilizations
                           THEN Advance(np_random, 1) ELSE np_random
         /\ returns' = [returns EXCEPT ![active] = Append(@, result)]
  /\ pc' = "idle"
  /\ active' = 0
  /\ UNCHANGED << py_random, events_left, solo, event, drawn, raised >>

\* ---------------------------------------------------------- specification
\* Process start: no engine exists.  Numba's generator starts from OS
\* entropy (one of NumEntropy values).  numpy's does too: its entropy is a
\* value that is none of the seeds 0 .. NumSeeds - 1 (seeding with s gives
\* the stream of key s).  The interpreter's `random` module is seeded
\* likewise (random.seed(None)); nothing in the program draws from it, so
\* its entropy is not enumerated.
Init ==
  /\ np_random = Seeded(NumSeeds)
  /\ py_random = Seeded(None)
  /\ nb_random \in {Seeded(k) : k \in 0 .. NumEntropy - 1}
  /\ sim = << >>
  /\ returns = << >>
  /\ pc = "idle"
  /\ active = 0
  /\ events_left = 0
  /\ solo = {}
  /\ event = NoEvent
  /\ drawn = << >>
  /\ raised = {}

Next ==
  \/ \E e \in Engines : Construct(e)
  \/ \E e \in Engines : StepTerminal(e)
  \/ \E e \in Engines : StepBegin(e)
  \/ StepEvent
  \/ StepExtinction
  \/ StepFinish

Spec == Init /\ [][Next]_vars

\* One engine on the further valid grids, with a wider choice of start-up
\* entropy.
InitGrid ==
  /\ np_random \in {Seeded(k) : k \in 0 .. NumGridEntropy - 1}
  /\ py_random = Seeded(None)
  /\ nb_random \in {Seeded(k) : k \in 0 .. NumGridEntropy - 1}
  /\ sim = << >>
  /\ returns = << >>
  /\ pc = "idle"
  /\ active = 0
  /\ events_left = 0
  /\ solo = {}
  /\ event = NoEvent
  /\ drawn = << >>
  /\ raised = {}

NextGrid ==
  \/ ConstructWith(1, MaxGridIntervals, GridGeometries)
  \/ StepTerminal(1)
  \/ StepBegin(1)
  \/ StepEvent
  \/ StepExtinction
  \/ StepFinish

SpecGrid == InitGrid /\ [][NextGrid]_vars

\* One engine on the standard grid under a driver that keeps calling
\* step(), as the loop of run_headless does until it gets False: a call
\* that can start does start, and a call under way runs to its return.
NextLive ==
  \/ ConstructWith(1, MaxGridIntervals, Geometries)
  \/ StepTerminal(1)
  \/ StepBegin(1)
  \/ StepEvent
  \/ StepExtinction
  \/ StepFinish

SpecLive ==
  /\ Init
  /\ [][NextLive]_vars
  /\ WF_vars(StepBegin(1))
  /\ WF_vars(StepEvent)
  /\ WF_vars(StepExtinction)
  /\ WF_vars(StepFinish)

\* One constructor call at a time on the configurations of
\* ConfigGeometries; a call that raises leaves no object and the next call
\* tries again.
NextConfig ==
  \/ ConstructWith(1, MaxIntervals, ConfigGeometries)
  \/ ConstructRaises(1, ConfigGeometries)
  \/ StepTerminal(1)
  \/ StepBegin(1)
  \/ StepEvent
  \/ StepExtinction
  \/ StepFinish

SpecConfig == Init /\ [][NextConfig]_vars

\* ================================================================= claims
Results(e) == SelectSeq(returns[e], LAMBDA r : r.kind = "result")

Last(q) == q[Len(q)]

FracLeq(a, b) == a.num * b.den <= b.num * a.den

ExtinctCount(civs) == Cardinality({n \in 1 .. Len(civs) : civs[n].extinct})

\* C1 (Termination): once num_intervals calls of step() have returned a
\* result, every further call returns the terminal signal and leaves
\* current_interval, hit_count, supernovae, coverage_history, civ_history,
\* civilizations, next_civ_id and intervals unchanged.
C1_Termination ==
  [][\A e \in DOMAIN sim :
       (/\ Len(Results(e)) >= sim[e].num_intervals
        /\ Len(returns'[e]) > Len(returns[e]))
       => /\ Last(returns'[e]) = TerminalSignal
          /\ sim'[e].current_interval = sim[e].current_interval
          /\ sim'[e].hit_count = sim[e].hit_count
          /\ sim'[e].supernovae = sim[e].supernovae
          /\ sim'[e].coverage_history = sim[e].coverage_history
          /\ sim'[e].civ_history = sim[e].civ_history
          /\ sim'[e].civilizations = sim[e].civilizations
          /\ sim'[e].next_civ_id = sim[e].next_civ_id
          /\ sim'[e].intervals = sim[e].intervals]_vars

C1_Witness ==
  \E e \in DOMAIN sim :
    /\ Len(returns[e]) > 0
    /\ Last(returns[e]) = TerminalSignal
    /\ sim[e].supernovae > 0

SameConfiguration(s, t) ==
  /\ s.num_intervals = t.num_intervals
  /\ s.simulate_civilizations = t.simulate_civilizations
  /\ s.geom = t.geom
  /\ s.max_threshold = t.max_threshold
  /\ s.seed = t.seed

\* C2 (Determinism): two engines with identical configuration and the same
\* non-null seed, each constructed and then run to completion, produce
\* identical sequences of step() results.
C2_Determinism ==
  \A e \in DOMAIN sim, f \in DOMAIN sim :
    (/\ pc = "idle"
     /\ e \in solo /\ f \in solo
     /\ sim[e].current_interval >= sim[e].num_intervals
     /\ sim[f].current_interval >= sim[f].num_intervals
     /\ SameConfiguration(sim[e], sim[f])
     /\ sim[e].seed # None)
    => Results(e) = Results(f)

\* C3 (Random-stream isolation): two engines seeded identically produce
\* identical trajectories whatever the order of creation and the
\* interleaving of their step() calls: the results they have returned so
\* far agree position by position.
C3_StreamIsolation ==
  \A e \in DOMAIN sim, f \in DOMAIN sim :
    (/\ SameConfiguration(sim[e], sim[f])
     /\ sim[e].seed # None)
    => \A n \in 1 .. Len(Results(e)) :
         n <= Len(Results(f)) => Results(e)[n] = Results(f)[n]

\* C4 (Monotonic hit counts): in every step of the model, including each
\* single event inside a step() call, no cell's hit_count decreases.
C4_MonotonicHitCounts ==
  [][\A e \in DOMAIN sim :
       \A c \in DOMAIN sim[e].hit_count :
         sim'[e].hit_count[c] >= sim[e].hit_count[c]]_vars

C4_Witness ==
  \E e \in DOMAIN sim :
    /\ sim[e].current_interval >= 2
    /\ \E c \in DOMAIN sim[e].hit_count : sim[e].hit_count[c] >= 2

\* C5 (Extinction ordering): an extinct civilization never has
\* extinction_interval < birth_interval, and a civilization that becomes
\* extinct was already in the list before the transition and was born in an
\* interval before the one whose events are being processed.
C5_ExtinctionOrdering ==
  [][\A e \in DOMAIN sim :
       LET old == sim[e].civilizations
           new == sim'[e].civilizations
       IN  \A n \in 1 .. Len(new) :
             new[n].extinct =>
               /\ new[n].extinction_interval >= new[n].birth_interval
               /\ (n > Len(old) \/ ~ old[n].extinct) =>
                    /\ n <= Len(old)
                    /\ old[n].birth_interval < sim[e].current_interval
                    /\ pc = "extinction" /\ events_left > 0]_vars

C5_Witness ==
  \E e \in DOMAIN sim :
    \E n \in 1 .. Len(sim[e].civilizations) :
      /\ sim[e].civilizations[n].extinct
      /\ sim[e].civilizations[n].extinction_interval
           = sim[e].civilizations[n].birth_interval + 1

\* C6 (Conservation): with civilization tracking enabled, every value
\* appended to civ_history, and returned as civ_count, equals the number of
\* civilizations spawned so far minus the number marked extinct.
C6_Conservation ==
  [][\A e \in DOMAIN sim :
       Len(sim'[e].civ_history) > Len(sim[e].civ_history) =>
         /\ sim'[e].simulate_civilizations
         /\ Len(sim'[e].civ_history) = Len(sim[e].civ_history) + 1
         /\ Last(sim'[e].civ_history)
              = sim'[e].next_civ_id - ExtinctCount(sim'[e].civilizations)
         /\ Last(returns'[e]).civ_count
              = sim'[e].next_civ_id - ExtinctCount(sim'[e].civilizations)]_vars

C6_Witness ==
  \E e \in DOMAIN sim :
    /\ pc = "idle"
    /\ Len(sim[e].civ_history) > 0
    /\ ExtinctCount(sim[e].civilizations) > 0
    /\ Last(sim[e].civ_history) > 0

\* C7 (Coverage ordering): in every returned result and at every index of
\* coverage_history, the fraction for threshold t1 is >= the fraction for
\* any threshold t2 > t1.
C7_CoverageOrdering ==
  \A e \in DOMAIN sim :
    \A t1 \in 1 .. sim[e].max_threshold, t2 \in 1 .. sim[e].max_threshold :
      t1 < t2 =>
        /\ \A n \in 1 .. Len(sim[e].coverage_history[t1]) :
             FracLeq(sim[e].coverage_history[t2][n],
                     sim[e].coverage_history[t1][n])
        /\ \A n \in 1 .. Len(Results(e)) :
             FracLeq(Results(e)[n].coverage[t2], Results(e)[n].coverage[t1])

C7_Witness ==
  \E e \in DOMAIN sim :
    \E n \in 1 .. Len(Results(e)) :
      /\ Results(e)[n].coverage[2].num > 0
      /\ Results(e)[n].coverage[1].num > Results(e)[n].coverage[2].num

\* C8 (Coverage monotonic in time): for each threshold the sequence
\* coverage_history[t] is non-decreasing.
C8_CoverageMonotonic ==
  \A e \in DOMAIN sim :
    \A t \in 1 .. sim[e].max_threshold :
      \A n \in 1 .. Len(sim[e].coverage_history[t]) - 1 :
        FracLeq(sim[e].coverage_history[t][n],
                sim[e].coverage_history[t][n + 1])

C8_Witness ==
  \E e \in DOMAIN sim :
    \E t \in 1 .. sim[e].max_threshold :
      /\ Len(sim[e].coverage_history[t]) >= 2
      /\ sim[e].coverage_history[t][1].num > 0
      /\ sim[e].coverage_history[t][2].num > sim[e].coverage_history[t][1].num

\* C9 (Simulation clock): current_interval is 0 on construction, grows by
\* exactly 1 in a step() call that returns a result and not otherwise, and
\* always lies in 0 .. num_intervals.
C9_SimulationClock ==
  [][\A e \in DOMAIN sim' :
       /\ e \notin DOMAIN sim => sim'[e].current_interval = 0
       /\ e \in DOMAIN sim =>
            IF Len(Results(e)') > Len(Results(e))
              THEN sim'[e].current_interval = sim[e].current_interval + 1
              ELSE sim'[e].current_interval = sim[e].current_interval
       /\ 0 <= sim'[e].current_interval
       /\ sim'[e].current_interval <= sim'[e].num_intervals]_vars

C9_Witness ==
  \E e \in DOMAIN sim :
    /\ sim[e].num_intervals >= 2
    /\ sim[e].current_interval = sim[e].num_intervals
    /\ Len(Results(e)) = sim[e].num_intervals

\* C10: exactly the first num_intervals calls of step() return a result
\* record (the call that reaches the cap included, with interval equal to
\* num_intervals), and every later call returns the terminal signal.
C10_CapCallReturnsResult ==
  \A e \in DOMAIN sim :
    \A n \in 1 .. Len(returns[e]) :
      /\ n <= sim[e].num_intervals =>
           /\ returns[e][n].kind = "result"
           /\ returns[e][n].interval = n
      /\ n > sim[e].num_intervals => returns[e][n] = TerminalSignal

C10_Witness ==
  \E e \in DOMAIN sim :
    /\ Len(returns[e]) = sim[e].num_intervals + 1
    /\ returns[e][sim[e].num_intervals].kind = "result"
    /\ returns[e][sim[e].num_intervals + 1] = TerminalSignal

\* C11: in the result record returned by step(), the civ_count field is
\* present if and only if civilization tracking is enabled; with tracking
\* disabled the record carries no civilization count.
C11_CivCountPresence ==
  \A e \in DOMAIN sim :
    \A n \in 1 .. Len(Results(e)) :
      ("civ_count" \in DOMAIN Results(e)[n]) <=> sim[e].simulate_civilizations

ValidConfiguration(g) ==
  g.ngrid_xy >= 2 /\ g.ngrid_z >= 2 /\ g.R > 0 /\ g.h > 0

\* C12 (Configuration validation): a constructor call with ngrid_xy < 2,
\* ngrid_z < 2, R <= 0 or h <= 0 raises; no such configuration yields an
\* engine object, let alone one on which step() returns results.
C12_ConfigurationValidation ==
  /\ \A e \in DOMAIN sim : ValidConfiguration(sim[e].geom)
  /\ \A r \in raised : ~ ValidConfiguration(r.geom)

\* The fractions an engine has recorded: coverage_history and the coverage
\* maps of its results.
RecordedFractions(e) ==
  { sim[e].coverage_history[th][n] :
      th \in 1 .. sim[e].max_threshold, n \in 1 .. sim[e].current_interval }
  \cup { Results(e)[n].coverage[th] :
           th \in 1 .. sim[e].max_threshold, n \in 1 .. Len(Results(e)) }

\* C13 (Degenerate domain): when total_domain_cells is 0, every step()
\* call returns normally and the coverage it reports and records is 0.0
\* for every threshold in 1..max_threshold.
C13_DegenerateDomain ==
  \A e \in DOMAIN sim :
    sim[e].total_domain_cells = 0 =>
      /\ Len(sim[e].coverage_history[sim[e].max_threshold])
           = sim[e].current_interval
      /\ Len(Results(e)) = sim[e].current_interval
      /\ \A f \in RecordedFractions(e) : f = [num |-> 0, den |-> 1]

C13_Witness ==
  \E e \in DOMAIN sim :
    /\ sim[e].total_domain_cells = 0
    /\ sim[e].geom.ngrid_xy = 2
    /\ sim[e].supernovae > 0
    /\ Len(Results(e)) >= 2
    /\ Last(Results(e)).coverage[1] = [num |-> 0, den |-> 1]

\* C14 (Coverage range): a cell with hit_count > 0 is a cell of
\* domain_mask, so every recorded coverage fraction lies in [0, 1].
C14_CoverageRange ==
  \A e \in DOMAIN sim :
    /\ \A c \in DOMAIN sim[e].hit_count :
         sim[e].hit_count[c] > 0 => c \in sim[e].domain_mask
    /\ \A f \in RecordedFractions(e) : 0 <= f.num /\ f.num <= f.den

RECURSIVE SumSeq(_)
SumSeq(q) == IF q = << >> THEN 0 ELSE q[1] + SumSeq(Tail(q))

\* The events of the engine's current step() call that have been counted.
EventsProcessed(e) ==
  IF active # e THEN 0
  ELSE Last(drawn[e]) - events_left + (IF pc = "extinction" THEN 1 ELSE 0)

\* C15 (Cumulative event count): between step() calls supernovae equals the
\* sum of the num_events values drawn so far; inside a call it equals the
\* sum for the earlier calls plus the number of events processed, each
\* adding exactly 1; the supernovae field of the n-th result is the sum of
\* the first n draws.
C15_CumulativeEventCount ==
  \A e \in DOMAIN sim :
    /\ active # e => sim[e].supernovae = SumSeq(drawn[e])
    /\ active = e =>
         sim[e].supernovae
           = SumSeq(SubSeq(drawn[e], 1, Len(drawn[e]) - 1)) + EventsProcessed(e)
    /\ \A n \in 1 .. Len(Results(e)) :
         Results(e)[n].supernovae = SumSeq(SubSeq(drawn[e], 1, n))

C15_Witness ==
  \E e \in DOMAIN sim :
    /\ active # e
    /\ Len(drawn[e]) >= 2
    /\ drawn[e][1] >= 2
    /\ drawn[e][2] >= 1
    /\ Last(Results(e)).supernovae = drawn[e][1] + drawn[e][2]

\* The cells whose centre lies in the disk and within bubble_r of (x0, y0,
\* z0), found by looking at every cell of the grid.
InSphere(g, x0, y0, z0) ==
  { c \in Cells(g) :
      LET x_cell == XCoord(g, c[1])
          y_cell == XCoord(g, c[2])
          z_cell == -(g.h \div 2) + c[3] * Dz(g)
      IN  /\ x_cell * x_cell + y_cell * y_cell <= g.R * g.R
          /\ (x_cell - x0) * (x_cell - x0) + (y_cell - y0) * (y_cell - y0)
               + (z_cell - z0) * (z_cell - z0) <= g.bubble_r * g.bubble_r }

InVolume(g, x0, y0, z0) ==
  /\ x0 * x0 + y0 * y0 <= g.R * g.R
  /\ -(g.h \div 2) <= z0 /\ z0 <= g.h \div 2

\* C16 (Exact stamping): one stamping, whose centre lies in the disk x slab
\* volume, increments by exactly 1 every cell of the grid that is inside
\* the disk and within bubble_r (inclusive) of the centre, and changes no
\* other cell; the index window misses none of them.
C16_ExactStamping ==
  [][(pc = "events" /\ pc' = "extinction") =>
       LET s == sim[active]
           hit == InSphere(s.geom, event'.x0, event'.y0, event'.z0)
       IN  /\ InVolume(s.geom, event'.x0, event'.y0, event'.z0)
           /\ \A c \in Cells(s.geom) :
                sim'[active].hit_count[c]
                  = s.hit_count[c] + (IF c \in hit THEN 1 ELSE 0)]_vars

\* An event on the finer grid that stamps a cell at the edge of the index
\* window (rx index steps from the rounded centre index along x or y), at
\* distance exactly bubble_r.
C16_Witness ==
  /\ pc = "extinction"
  /\ LET s == sim[active]
         g == s.geom
         i_center == RoundDiv(event.x0 + g.R, s.dx)
         j_center == RoundDiv(event.y0 + g.R, s.dy)
     IN  /\ s.rx >= 2
         /\ \E c \in event.accessed :
              /\ \/ c[1] = i_center - s.rx \/ c[1] = i_center + s.rx
                 \/ c[2] = j_center - s.ry \/ c[2] = j_center + s.ry
              /\ (XCoord(g, c[1]) - event.x0) * (XCoord(g, c[1]) - event.x0)
                   + (XCoord(g, c[2]) - event.y0) * (XCoord(g, c[2]) - event.y0)
                   = g.bubble_r * g.bubble_r
              /\ s.hit_count[c] >= 1

\* C17 (First-time hits): the value one stamping returns equals the number
\* of cells whose hit_count was 0 before the event and is nonzero after it.
C17_FirstTimeHits ==
  [][(pc = "events" /\ pc' = "extinction") =>
       event'.new_hits
         = Cardinality({c \in Cells(sim[active].geom) :
                          /\ sim[active].hit_count[c] = 0
                          /\ sim'[active].hit_count[c] # 0})]_vars

\* An event that hits some cells for the first time and some again.
C17_Witness ==
  /\ pc = "extinction"
  /\ event.new_hits > 0
  /\ \E c \in event.accessed : sim[active].hit_count[c] >= 2

\* C18 (Boundary clipping): the stamping loop reads and writes hit_count
\* only at indices inside [0, ngrid_xy-1] x [0, ngrid_xy-1] x
\* [0, ngrid_z-1], wherever in the sampling volume the centre lies;
\* candidates outside are skipped.
C18_BoundaryClipping ==
  event.kind = "event" => event.accessed \subseteq Cells(sim[active].geom)

\* An event on a slab face whose index window reaches outside the array
\* along z and along x or y, and which stamps cells.
C18_Witness ==
  /\ pc = "extinction"
  /\ LET s == sim[active]
         g == s.geom
         i_center == RoundDiv(event.x0 + g.R, s.dx)
         j_center == RoundDiv(event.y0 + g.R, s.dy)
         k_center == RoundDiv(event.z0 + (g.h \div 2), s.dz)
     IN  /\ event.z0 = -(g.h \div 2)
         /\ k_center - s.rz < 0
         /\ \/ i_center - s.rx < 0 \/ i_center + s.rx >= g.ngrid_xy
            \/ j_center - s.ry < 0 \/ j_center + s.ry >= g.ngrid_xy
         /\ event.accessed # {}

\* Squared distance of civilization record civ from the current event.
EventDist2(civ) ==
  (civ.x - event.x0) * (civ.x - event.x0)
    + (civ.y - event.y0) * (civ.y - event.y0)
    + (civ.z - event.z0) * (civ.z - event.z0)

\* C19 (Per-event extinction): the check for an event, run in interval k,
\* marks every listed, non-extinct civilization at squared distance
\* <= bubble_r^2 from the event centre extinct with extinction_interval = k
\* and leaves every other civilization unchanged; it runs after the
\* event's hit-count update and before the next event is sampled.
C19_PerEventExtinction ==
  [][/\ pc = "extinction" =>
          LET s == sim[active]
              old == s.civilizations
              new == sim'[active].civilizations
              br2 == s.geom.bubble_r * s.geom.bubble_r
          IN  /\ event.kind = "event"
              /\ pc' = "events"
              /\ nb_random' = nb_random
              /\ sim'[active].hit_count = s.hit_count
              /\ Len(new) = Len(old)
              /\ \A n \in 1 .. Len(old) :
                   IF ~ old[n].extinct /\ EventDist2(old[n]) <= br2
                     THEN new[n] = [old[n] EXCEPT
                                      !.extinct = TRUE,
                                      !.extinction_interval =
                                         s.current_interval]
                     ELSE new[n] = old[n]
     /\ pc' = "extinction" =>
          /\ pc = "events"
          /\ event'.kind = "event"
          /\ nb_random' # nb_random
          /\ sim'[active].civilizations = sim[active].civilizations]_vars

\* After the check of an event: one civilization has been marked extinct in
\* the current interval, another one is still alive.
C19_Witness ==
  /\ pc = "events"
  /\ active \in DOMAIN sim
  /\ \E n, m \in 1 .. Len(sim[active].civilizations) :
       /\ sim[active].civilizations[n].extinct
       /\ sim[active].civilizations[n].extinction_interval
            = sim[active].current_interval
       /\ ~ sim[active].civilizations[m].extinct

\* C20 (One-way extinction): a civilization is created with extinct false;
\* extinct changes only from false to true; extinct is true exactly when
\* extinction_interval is set; a set extinction_interval is never changed
\* by a later event.
C20_OneWayExtinction ==
  [][\A e \in DOMAIN sim :
       LET old == sim[e].civilizations
           new == sim'[e].civilizations
       IN  \A n \in 1 .. Len(new) :
             /\ new[n].extinct <=> new[n].extinction_interval # None
             /\ n > Len(old) => ~ new[n].extinct
             /\ (n <= Len(old) /\ old[n].extinct) => new[n] = old[n]]_vars

\* An event whose bubble holds a civilization that an earlier event already
\* marked extinct.
C20_Witness ==
  /\ pc = "extinction"
  /\ \E n \in 1 .. Len(sim[active].civilizations) :
       /\ sim[active].civilizations[n].extinct
       /\ sim[active].civilizations[n].extinction_interval # None
       /\ EventDist2(sim[active].civilizations[n])
            <= sim[active].geom.bubble_r * sim[active].geom.bubble_r

\* C21 (Registry integrity): the civilization list only grows; the record
\* at list position i (from 0) has id i; next_civ_id equals the list
\* length; ids are pairwise distinct; the id, position and birth_interval
\* of an existing record never change.
C21_RegistryIntegrity ==
  [][\A e \in DOMAIN sim :
       LET old == sim[e].civilizations
           new == sim'[e].civilizations
       IN  /\ Len(new) >= Len(old)
           /\ sim'[e].next_civ_id = Len(new)
           /\ \A n \in 1 .. Len(new) : new[n].id = n - 1
           /\ \A n, m \in 1 .. Len(new) : n # m => new[n].id # new[m].id
           /\ \A n \in 1 .. Len(old) :
                /\ new[n].id = old[n].id
                /\ new[n].x = old[n].x
                /\ new[n].y = old[n].y
                /\ new[n].z = old[n].z
                /\ new[n].birth_interval = old[n].birth_interval]_vars

\* A list of three or more records spawned in different steps, one of them
\* marked extinct since.
C21_Witness ==
  \E e \in DOMAIN sim :
    LET civs == sim[e].civilizations
    IN  /\ Len(civs) >= 3
        /\ civs[1].extinct
        /\ civs[Len(civs)].birth_interval > civs[1].birth_interval
        /\ civs[Len(civs)].id = Len(civs) - 1

\* Sequence p is a prefix of sequence q.
IsPrefix(p, q) == Len(p) <= Len(q) /\ SubSeq(q, 1, Len(p)) = p

\* C22 (History lengths): for every threshold t in 1..max_threshold,
\* len(coverage_history[t]) equals current_interval and recorded entries
\* are never modified; len(civ_history) equals current_interval with
\* tracking enabled, and stays 0, with an empty civilization list, with
\* tracking disabled.
C22_HistoryLengths ==
  [][\A e \in DOMAIN sim' :
       /\ DOMAIN sim'[e].coverage_history = 1 .. sim'[e].max_threshold
       /\ \A t \in 1 .. sim'[e].max_threshold :
            /\ Len(sim'[e].coverage_history[t]) = sim'[e].current_interval
            /\ e \in DOMAIN sim =>
                 IsPrefix(sim[e].coverage_history[t],
                          sim'[e].coverage_history[t])
       /\ e \in DOMAIN sim => IsPrefix(sim[e].civ_history, sim'[e].civ_history)
       /\ IF sim'[e].simulate_civilizations
            THEN Len(sim'[e].civ_history) = sim'[e].current_interval
            ELSE /\ Len(sim'[e].civ_history) = 0
                 /\ sim'[e].civilizations = << >>]_vars

\* A tracking engine after three steps, with differing entries in both
\* kinds of history.
C22_Witness ==
  \E e \in DOMAIN sim :
    /\ sim[e].current_interval >= 3
    /\ Len(sim[e].coverage_history[1]) = 3
    /\ sim[e].coverage_history[1][1] # sim[e].coverage_history[1][3]
    /\ sim[e].simulate_civilizations
    /\ Len(sim[e].civ_history) = 3
    /\ sim[e].civ_history[1] # sim[e].civ_history[3]

\* C23 (Engine state machine): an engine starts Running at interval 0;
\* Completed (current_interval = num_intervals) is never left; and under a
\* driver that keeps calling step() every engine eventually is Completed,
\* whatever the event and emergence counts drawn.
C23_EngineStateMachine ==
  /\ [][\A e \in DOMAIN sim' :
          /\ e \notin DOMAIN sim =>
               /\ sim'[e].current_interval = 0
               /\ sim'[e].current_interval < sim'[e].num_intervals
          /\ (e \in DOMAIN sim
              /\ sim[e].current_interval = sim[e].num_intervals) =>
               sim'[e].current_interval = sim'[e].num_intervals]_vars
  /\ \A e \in Engines :
       (e \in DOMAIN sim)
         ~> (e \in DOMAIN sim
             /\ sim[e].current_interval = sim[e].num_intervals)

\* A Completed engine that went through the largest num_intervals, with
\* events and emergences on the way, and was called again afterwards.
C23_Witness ==
  \E e \in DOMAIN sim :
    /\ sim[e].num_intervals = MaxGridIntervals
    /\ sim[e].current_interval = sim[e].num_intervals
    /\ sim[e].supernovae >= 2
    /\ Len(sim[e].civilizations) >= 1
    /\ Last(returns[e]) = TerminalSignal

\* C24 (Strict birth-before-death): every extinct civilization has
\* extinction_interval > birth_interval.  The event loop of a step runs
\* before its emergence block, so a record born in the step with index k
\* meets its first event in the step with index k + 1.
C24_StrictBirthBeforeDeath ==
  \A e \in DOMAIN sim :
    \A n \in 1 .. Len(sim[e].civilizations) :
      LET civ == sim[e].civilizations[n]
      IN  civ.extinct => civ.extinction_interval > civ.birth_interval

\* A record killed in the step right after its birth, next to a record born
\* in that killing step which is still alive.
C24_Witness ==
  \E e \in DOMAIN sim :
    \E n, m \in 1 .. Len(sim[e].civilizations) :
      LET dead == sim[e].civilizations[n]
          born == sim[e].civilizations[m]
      IN  /\ dead.extinct
          /\ dead.extinction_interval = dead.birth_interval + 1
          /\ ~ born.extinct
          /\ born.birth_interval = dead.extinction_interval

\* C25 (Interval numbering): the k-th result record of an engine carries
\* interval = k and leaves intervals = <<1, ..., k>>; the records appended
\* and the extinctions stamped during the step that returns interval k carry
\* birth_interval / extinction_interval = k - 1; so every such value lies in
\* 0 .. num_intervals - 1 and is below the interval of the result of the
\* step that produced it.
C25_IntervalNumbering ==
  [][\A e \in DOMAIN sim' :
       LET new  == sim'[e].civilizations
           res  == SelectSeq(returns'[e], LAMBDA r : r.kind = "result")
           k    == Len(res)
           done == IF e \in DOMAIN sim THEN Len(Results(e)) ELSE 0
           old  == IF e \in DOMAIN sim THEN sim[e].civilizations ELSE << >>
       IN  /\ k <= sim'[e].num_intervals
           /\ k \in {done, done + 1}
           /\ \A j \in 1 .. k : res[j].interval = j
           /\ sim'[e].intervals = [j \in 1 .. k |-> j]
           /\ \A n \in 1 .. Len(new) :
                /\ new[n].birth_interval \in 0 .. sim'[e].num_intervals - 1
                /\ new[n].birth_interval < k
                /\ res[new[n].birth_interval + 1].interval
                     > new[n].birth_interval
                /\ n > Len(old) =>
                     /\ k = done + 1
                     /\ new[n].birth_interval = res[k].interval - 1
                /\ new[n].extinct =>
                     /\ new[n].extinction_interval
                          \in 0 .. sim'[e].num_intervals - 1
                     /\ new[n].extinction_interval
                          < k + (IF active' = e THEN 1 ELSE 0)
                /\ (n <= Len(old) /\ new[n].extinct /\ ~ old[n].extinct) =>
                     /\ k = done
                     /\ active' = e
                     /\ new[n].extinction_interval = (done + 1) - 1]_vars

\* The third result of an engine, returned with interval 3 by a step that
\* both stamped an extinction with 2 and appended a record born in 2.
C25_Witness ==
  \E e \in DOMAIN sim :
    /\ active # e
    /\ Len(Results(e)) = 3
    /\ Last(Results(e)).interval = 3
    /\ sim[e].intervals = << 1, 2, 3 >>
    /\ \E n, m \in 1 .. Len(sim[e].civilizations) :
         /\ sim[e].civilizations[n].extinct
         /\ sim[e].civilizations[n].extinction_interval = 2
         /\ sim[e].civilizations[m].birth_interval = 2

\* C26 (Hit counts bounded by the event total): every cell of every engine
\* has 0 <= hit_count[cell] <= supernovae, and on every transition a cell's
\* value grows by no more than the event counter does, which is one per
\* processed event; over a step the growth is therefore at most the number
\* of events processed in that step.  The counter moves only in the event
\* loop of the active engine and never exceeds the events drawn so far.
C26_HitCountBounded ==
  [][\A e \in DOMAIN sim' :
       \A c \in DOMAIN sim'[e].hit_count :
         /\ 0 <= sim'[e].hit_count[c]
         /\ sim'[e].hit_count[c] <= sim'[e].supernovae
         /\ e \in DOMAIN sim =>
              LET grown  == sim'[e].hit_count[c] - sim[e].hit_count[c]
                  events == sim'[e].supernovae - sim[e].supernovae
              IN  /\ 0 <= grown
                  /\ grown <= events
                  /\ events <= 1
                  /\ events = 1 => (pc = "events" /\ active = e)
                  /\ sim'[e].supernovae
                       <= SumSeq(drawn'[e])]_vars

\* After at least two events one cell was stamped by every event and
\* another cell by some of them only.
C26_Witness ==
  \E e \in DOMAIN sim :
    /\ sim[e].supernovae >= 2
    /\ \E c, d \in DOMAIN sim[e].hit_count :
         /\ sim[e].hit_count[c] = sim[e].supernovae
         /\ sim[e].hit_count[d] > 0
         /\ sim[e].hit_count[d] < sim[e].supernovae

====
